---------------------------- MODULE Spec2Model ----------------------------
(***************************************************************************)
(* Sudoku constraint-satisfaction engine: plain backtracking, forward      *)
(* checking, MRV/LCV and simulated annealing, with the process-wide        *)
(* metrics.  JavaScript arrays are reference objects, so grids, domain     *)
(* matrices and fixed masks live in a heap and problems hold addresses;    *)
(* search nodes live in an arena and refer to their parent by index.       *)
(***************************************************************************)
EXTENDS Integers, Sequences, FiniteSets, TLC

VARIABLES
  run,              \* the call being made: [alg, state, fixed, maxSteps]
  heap,             \* address -> matrix (grid, domain matrix or fixed mask)
  nodes,            \* arena of the Node objects created so far
  fringe,           \* the stack of the backtracking loop (node indices)
  metrics,          \* the global metrics object
  pc,               \* "idle", "loop", "anneal" or "done"
  result,           \* what the call returned
  current,          \* annealing: address of the current grid
  currentConflicts, \* annealing: conflict count of the current grid
  step,             \* annealing: loop variable
  cooled            \* annealing: number of times T *= alpha was executed

vars == <<run, heap, nodes, fringe, metrics, pc, result,
          current, currentConflicts, step, cooled>>

---------------------------------------------------------------------------
(* Program constants *)

N == 9
B == 3
NULL == 0

Idx == 0 .. (N - 1)
Digits == 1 .. N
NoPosition == [row |-> -1, col |-> -1]
NoNode == 0
NoRef == 0

Max(a, b) == IF a >= b THEN a ELSE b

Pos(r, c) == [row |-> r, col |-> c]

FullDomain == [k \in 1 .. N |-> k]

Includes(seq, v) == \E k \in 1 .. Len(seq) : seq[k] = v

Without(seq, v) == SelectSeq(seq, LAMBDA x : x # v)

---------------------------------------------------------------------------
(* metrics *)

ZeroMetrics ==
  [nodesExpanded |-> 0, childrenGenerated |-> 0, maxDepth |-> 0, iterations |-> 0]

\* a reset that leaves the counters as they are
resetNothing(m) == m

reset(m) == ZeroMetrics

---------------------------------------------------------------------------
(* Pure helpers of the search module *)

RECURSIVE getDepth(_, _)
getDepth(ns, n) ==
  IF ns[n].parent = NoNode THEN 0 ELSE 1 + getDepth(ns, ns[n].parent)

PositionsOf(state, value) ==
  {p \in Idx \X Idx : state[p[1]][p[2]] = value}

subgridKey(row, col) == <<row \div B, col \div B>>

\* the scan without the column keys
NoneSeenTwiceNoColumn(positions) ==
  /\ Cardinality({p[1] : p \in positions}) = Cardinality(positions)
  /\ Cardinality({subgridKey(p[1], p[2]) : p \in positions}) = Cardinality(positions)

\* One pass of the inner loop over the positions of a value: a key seen twice
\* makes the scan return false.
NoneSeenTwice(positions) ==
  /\ Cardinality({p[1] : p \in positions}) = Cardinality(positions)
  /\ Cardinality({p[2] : p \in positions}) = Cardinality(positions)
  /\ Cardinality({subgridKey(p[1], p[2]) : p \in positions}) = Cardinality(positions)

\* the check without the subgrid keys
consistentNoSubgrid(state) ==
  LET keys == {state[i][j] : i \in Idx, j \in Idx} \ {NULL}
  IN  \A value \in keys :
        LET positions == PositionsOf(state, value)
        IN  /\ Cardinality({p[1] : p \in positions}) = Cardinality(positions)
            /\ Cardinality({p[2] : p \in positions}) = Cardinality(positions)

consistent(state) ==
  LET keys == {state[i][j] : i \in Idx, j \in Idx} \ {NULL}
  IN  \A value \in keys : NoneSeenTwice(PositionsOf(state, value))

\* the helper with a candidate list that stops one short
inititationHelperShort(state) ==
  [domain |-> [i \in Idx |-> [j \in Idx |->
                 IF state[i][j] # NULL THEN <<>> ELSE [k \in 1 .. N - 1 |-> k]]],
   fixed  |-> [i \in Idx |-> [j \in Idx |-> state[i][j] # NULL]]]

inititationHelper(state) ==
  [domain |-> [i \in Idx |-> [j \in Idx |->
                 IF state[i][j] # NULL THEN <<>> ELSE FullDomain]],
   fixed  |-> [i \in Idx |-> [j \in Idx |-> state[i][j] # NULL]]]

\* a goal test that never succeeds
isgoalNever(state) == FALSE

isgoal(state) ==
  IF \E i \in Idx, j \in Idx : state[i][j] = NULL THEN FALSE ELSE consistent(state)

getNextPosition(state, currentPosition) ==
  LET startRow0 == IF currentPosition # NoPosition THEN currentPosition.row ELSE 0
      startCol0 == IF currentPosition # NoPosition THEN currentPosition.col + 1 ELSE 0
      startRow == IF startCol0 >= N THEN startRow0 + 1 ELSE startRow0
      startCol == IF startCol0 >= N THEN 0 ELSE startCol0
      found == {p \in Idx \X Idx :
                  /\ p[1] >= startRow
                  /\ p[2] >= (IF p[1] = startRow THEN startCol ELSE 0)
                  /\ state[p[1]][p[2]] = NULL}
  IN  IF found = {} THEN NoPosition
      ELSE LET first == CHOOSE p \in found :
                          \A q \in found : p[1] * N + p[2] <= q[1] * N + q[2]
           IN  Pos(first[1], first[2])

\* updateDomain without the last assignment: the position keeps its candidates
newDomainOfKeepsCell(domain, position, value) ==
  LET row == position.row
      col == position.col
      subgridRowStart == (row \div B) * B
      subgridColStart == (col \div B) * B
  IN  [i \in Idx |-> [j \in Idx |->
        IF \/ i = row
           \/ j = col
           \/ /\ i >= subgridRowStart /\ i < subgridRowStart + B
              /\ j >= subgridColStart /\ j < subgridColStart + B
        THEN Without(domain[i][j], value) ELSE domain[i][j]]]

\* updateDomain with the subgrid pass run over the whole band of rows
newDomainOfWholeBand(domain, position, value) ==
  LET row == position.row
      col == position.col
      subgridRowStart == (row \div B) * B
  IN  [i \in Idx |-> [j \in Idx |->
        IF i = row /\ j = col THEN <<>>
        ELSE IF \/ j = col
                \/ i >= subgridRowStart /\ i < subgridRowStart + B
             THEN Without(domain[i][j], value) ELSE domain[i][j]]]

\* updateDomain without the subgrid pass
newDomainOfNoSubgrid(domain, position, value) ==
  LET row == position.row
      col == position.col
      d1 == [i \in Idx |-> [j \in Idx |->
               IF i = row THEN Without(domain[i][j], value) ELSE domain[i][j]]]
      d2 == [i \in Idx |-> [j \in Idx |->
               IF j = col THEN Without(d1[i][j], value) ELSE d1[i][j]]]
  IN  [d2 EXCEPT ![row][col] = <<>>]

\* The matrix updateDomain builds in newDomain: three filtering passes over
\* the copy, then the assigned cell's domain is emptied.
newDomainOf(domain, position, value) ==
  LET row == position.row
      col == position.col
      subgridRowStart == (row \div B) * B
      subgridColStart == (col \div B) * B
      d1 == [i \in Idx |-> [j \in Idx |->
               IF i = row THEN Without(domain[i][j], value) ELSE domain[i][j]]]
      d2 == [i \in Idx |-> [j \in Idx |->
               IF j = col THEN Without(d1[i][j], value) ELSE d1[i][j]]]
      d3 == [i \in Idx |-> [j \in Idx |->
               IF /\ i >= subgridRowStart /\ i < subgridRowStart + B
                  /\ j >= subgridColStart /\ j < subgridColStart + B
               THEN Without(d2[i][j], value) ELSE d2[i][j]]]
  IN  [d3 EXCEPT ![row][col] = <<>>]

\* updateDomain without the deep copy: newDomain is the caller's matrix
updateDomainInPlace(h, domain, position, value) ==
  [heap |-> [h EXCEPT ![domain] = newDomainOf(h[domain], position, value)],
   ref  |-> domain]

\* updateDomain on the heap: the deep copy is a new object; the object at
\* address domain is only read.
updateDomain(h, domain, position, value) ==
  [heap |-> Append(h, newDomainOf(h[domain], position, value)),
   ref  |-> Len(h) + 1]

\* the scan with the state test dropped: an assigned cell's empty domain counts
hasEmptyDomainAnyCell(newState, domain) ==
  \E r \in Idx, c \in Idx : Len(domain[r][c]) = 0

\* the scan with row loop bound one short
hasEmptyDomainShortScan(newState, domain) ==
  \E r \in 0 .. N - 2, c \in Idx : newState[r][c] = NULL /\ Len(domain[r][c]) = 0

\* the scan that never finds an empty domain
hasEmptyDomainNever(newState, domain) == FALSE

\* The forward-checking scan: some unassigned cell has an empty domain.
hasEmptyDomain(newState, domain) ==
  \E r \in Idx, c \in Idx : newState[r][c] = NULL /\ Len(domain[r][c]) = 0

\* the value written with row and column exchanged
newStateOfTransposed(h, state, position, value) ==
  [heap |-> Append(h, [h[state] EXCEPT ![position.col][position.row] = value]),
   ref  |-> Len(h) + 1]

\* the assignment written into the parent's own grid
newStateInPlace(h, state, position, value) ==
  [heap |-> [h EXCEPT ![state] = [h[state] EXCEPT ![position.row][position.col] = value]],
   ref  |-> state]

\* newState: a copy of the parent's grid, row by row, with the value written
\* into the copy.
newStateOf(h, state, position, value) ==
  [heap |-> Append(h, [h[state] EXCEPT ![position.row][position.col] = value]),
   ref  |-> Len(h) + 1]


---------------------------------------------------------------------------
(* Objects: problems and nodes *)

Problem(state, domain, fixed) == [state |-> state, domain |-> domain, fixed |-> fixed]

Node(problem, parent, lastAssigned) ==
  [problem |-> problem, parent |-> parent, lastAssigned |-> lastAssigned]

\* initiate: the helper's two matrices are new objects; the problem's state
\* field is the caller's array itself.
initiate(h, state) ==
  LET made == inititationHelper(h[state])
      h1 == Append(Append(h, made.domain), made.fixed)
  IN  [heap |-> h1, problem |-> Problem(state, Len(h) + 1, Len(h) + 2)]

\* What a getChildren variant hands back: the heap and arena after its
\* allocations, the children in push order, the metrics after its updates.
Expansion(h, ns, children, m) ==
  [heap |-> h, nodes |-> ns, children |-> children, metrics |-> m]

---------------------------------------------------------------------------
(* getChildren: plain backtracking *)

RECURSIVE getChildrenLoop(_, _, _, _, _, _, _)
getChildrenLoop(h, ns, parent, actions, nextPosition, i, children) ==
  IF i > Len(actions) THEN [heap |-> h, nodes |-> ns, children |-> children]
  ELSE
    LET par == ns[parent]
        row == par.lastAssigned.row
        col == par.lastAssigned.col
        value == actions[i]
        made == newStateOf(h, par.problem.state, par.lastAssigned, value)
        newState == made.heap[made.ref]
        upd == updateDomain(made.heap, par.problem.domain, par.lastAssigned, value)
        child == Node(Problem(made.ref, upd.ref, par.problem.fixed),
                      parent,
                      IF nextPosition = NoPosition THEN par.lastAssigned
                                                   ELSE nextPosition)
    IN  getChildrenLoop(upd.heap, Append(ns, child), parent, actions, nextPosition,
                        i + 1, Append(children, Len(ns) + 1))

getChildren(h, ns, m, parent) ==
  LET par == ns[parent]
      actions == h[par.problem.domain][par.lastAssigned.row][par.lastAssigned.col]
      nextPosition == getNextPosition(h[par.problem.state], par.lastAssigned)
      currentDepth == getDepth(ns, parent)
      m1 == [m EXCEPT !.maxDepth = Max(@, currentDepth + 1)]
      out == getChildrenLoop(h, ns, parent, actions, nextPosition, 1, <<>>)
  IN  Expansion(out.heap, out.nodes, out.children,
                [m1 EXCEPT !.childrenGenerated = @ + Len(out.children)])

---------------------------------------------------------------------------
(* getChildren_forwarding: forward checking *)

RECURSIVE getChildren_forwardingLoop(_, _, _, _, _, _, _)
getChildren_forwardingLoop(h, ns, parent, actions, nextPosition, i, children) ==
  IF i > Len(actions) THEN [heap |-> h, nodes |-> ns, children |-> children]
  ELSE
    LET par == ns[parent]
        row == par.lastAssigned.row
        col == par.lastAssigned.col
        value == actions[i]
        made == newStateOf(h, par.problem.state, par.lastAssigned, value)
        newState == made.heap[made.ref]
        upd == updateDomain(made.heap, par.problem.domain, par.lastAssigned, value)
        child == Node(Problem(made.ref, upd.ref, par.problem.fixed),
                      parent,
                      IF nextPosition = NoPosition THEN par.lastAssigned
                                                   ELSE nextPosition)
    IN  IF hasEmptyDomain(newState, upd.heap[upd.ref])
        THEN getChildren_forwardingLoop(upd.heap, ns, parent, actions, nextPosition,
                                        i + 1, children)
        ELSE getChildren_forwardingLoop(upd.heap, Append(ns, child), parent, actions,
                                        nextPosition, i + 1,
                                        Append(children, Len(ns) + 1))

getChildren_forwarding(h, ns, m, parent) ==
  LET par == ns[parent]
      actions == h[par.problem.domain][par.lastAssigned.row][par.lastAssigned.col]
      nextPosition == getNextPosition(h[par.problem.state], par.lastAssigned)
      currentDepth == getDepth(ns, parent)
      m1 == [m EXCEPT !.maxDepth = Max(@, currentDepth + 1)]
      out == getChildren_forwardingLoop(h, ns, parent, actions, nextPosition, 1, <<>>)
  IN  Expansion(out.heap, out.nodes, out.children,
                [m1 EXCEPT !.childrenGenerated = @ + Len(out.children)])

---------------------------------------------------------------------------
(* MRV position, LCV ordering and getChildren_MRV_LCV *)

\* the scan with the test written <=: the last of the smallest
getMRVPositionLast(state, domain) ==
  LET open == {p \in Idx \X Idx :
                 state[p[1]][p[2]] = NULL /\ Len(domain[p[1]][p[2]]) > 0}
  IN  IF open = {} THEN NoPosition
      ELSE LET best == CHOOSE p \in open : \A q \in open :
                         \/ Len(domain[p[1]][p[2]]) < Len(domain[q[1]][q[2]])
                         \/ /\ Len(domain[p[1]][p[2]]) = Len(domain[q[1]][q[2]])
                            /\ p[1] * N + p[2] >= q[1] * N + q[2]
           IN  Pos(best[1], best[2])

getMRVPosition(state, domain) ==
  LET open == {p \in Idx \X Idx :
                 state[p[1]][p[2]] = NULL /\ Len(domain[p[1]][p[2]]) > 0}
  IN  IF open = {} THEN NoPosition
      ELSE LET best == CHOOSE p \in open : \A q \in open :
                         \/ Len(domain[p[1]][p[2]]) < Len(domain[q[1]][q[2]])
                         \/ /\ Len(domain[p[1]][p[2]]) = Len(domain[q[1]][q[2]])
                            /\ p[1] * N + p[2] <= q[1] * N + q[2]
           IN  Pos(best[1], best[2])

\* The count getLCV computes for one value: one increment per test that
\* succeeds in the row/column loop and in the subgrid loop.
lcvCount(state, domain, pos, value) ==
  LET row == pos.row
      col == pos.col
      subgridRowStart == (row \div B) * B
      subgridColStart == (col \div B) * B
      hit(r, c) == state[r][c] = NULL /\ Includes(domain[r][c], value)
  IN  Cardinality({i \in Idx : hit(row, i)})
      + Cardinality({i \in Idx : hit(i, col)})
      + Cardinality({p \in (subgridRowStart .. subgridRowStart + B - 1)
                             \X (subgridColStart .. subgridColStart + B - 1) :
                       hit(p[1], p[2])})

\* Array.prototype.sort is stable: an entry goes in front of the later entries
\* whose count is not smaller.
RECURSIVE insertByCount(_, _)
insertByCount(sorted, x) ==
  IF sorted = <<>> THEN <<x>>
  ELSE IF x.count <= sorted[1].count THEN <<x>> \o sorted
  ELSE <<sorted[1]>> \o insertByCount(Tail(sorted), x)

RECURSIVE sortByCount(_)
sortByCount(constraints) ==
  IF constraints = <<>> THEN <<>>
  ELSE LET n == Len(constraints)
       IN  insertByCount(sortByCount(SubSeq(constraints, 2, n)), constraints[1])

getLCV(state, domain, pos) ==
  LET values == domain[pos.row][pos.col]
      constraints == [k \in 1 .. Len(values) |->
                        [value |-> values[k],
                         count |-> lcvCount(state, domain, pos, values[k])]]
      sorted == sortByCount(constraints)
  IN  [k \in 1 .. Len(sorted) |-> sorted[k].value]

RECURSIVE getChildren_MRV_LCVLoop(_, _, _, _, _, _, _)
getChildren_MRV_LCVLoop(h, ns, parent, actions, nextPosition, i, children) ==
  IF i > Len(actions) THEN [heap |-> h, nodes |-> ns, children |-> children]
  ELSE
    LET par == ns[parent]
        value == actions[i]
        made == newStateOf(h, par.problem.state, nextPosition, value)
        newState == made.heap[made.ref]
        upd == updateDomain(made.heap, par.problem.domain, nextPosition, value)
        nextMRVPosition == getMRVPosition(newState, upd.heap[upd.ref])
        child == Node(Problem(made.ref, upd.ref, par.problem.fixed),
                      parent,
                      IF nextMRVPosition = NoPosition THEN nextPosition
                                                      ELSE nextMRVPosition)
    IN  IF hasEmptyDomain(newState, upd.heap[upd.ref])
        THEN getChildren_MRV_LCVLoop(upd.heap, ns, parent, actions, nextPosition,
                                     i + 1, children)
        ELSE getChildren_MRV_LCVLoop(upd.heap, Append(ns, child), parent, actions,
                                     nextPosition, i + 1,
                                     Append(children, Len(ns) + 1))

getChildren_MRV_LCV(h, ns, m, parent) ==
  LET par == ns[parent]
      nextPosition == getMRVPosition(h[par.problem.state], h[par.problem.domain])
  IN  IF nextPosition = NoPosition THEN Expansion(h, ns, <<>>, m)
      ELSE
        LET currentDepth == getDepth(ns, parent)
            m1 == [m EXCEPT !.maxDepth = Max(@, currentDepth + 1)]
            actions == getLCV(h[par.problem.state], h[par.problem.domain], nextPosition)
            out == getChildren_MRV_LCVLoop(h, ns, parent, actions, nextPosition, 1, <<>>)
        IN  Expansion(out.heap, out.nodes, out.children,
                      [m1 EXCEPT !.childrenGenerated = @ + Len(out.children)])

---------------------------------------------------------------------------
(* The caller (the solver page) and what a call returns *)

\* Addresses of the caller's board and of the mask it builds for annealing.
Board == 1
FixedArg == 2

\* a mask that marks no cell
fixedOfNothing(board) == [i \in Idx |-> [j \in Idx |-> FALSE]]

fixedOf(board) == [i \in Idx |-> [j \in Idx |-> board[i][j] # NULL]]

Pending == [returned |-> FALSE, node |-> NoNode, grid |-> NoRef]
ReturnNode(n) == [returned |-> TRUE, node |-> n, grid |-> NoRef]
ReturnGrid(g) == [returned |-> TRUE, node |-> NoNode, grid |-> g]
ReturnNull == [returned |-> TRUE, node |-> NoNode, grid |-> NoRef]

\* solution = node ? node.problem.state : null, or the annealing result itself
solutionOf(ns, res) ==
  IF res.node # NoNode THEN ns[res.node].problem.state ELSE res.grid

---------------------------------------------------------------------------
(* The three backtracking entry points: the code before the loop *)

annealIdle == UNCHANGED <<current, currentConflicts, step, cooled>>

\* if (!firstEmpty) on a variant that always runs the loop
noneToAssignIgnored(position) == FALSE

\* if (!firstEmpty), if (!firstMRV): the early return "already complete"
noneToAssign(position) == position = NoPosition

backtack ==
  /\ pc = "idle"
  /\ run.alg = "backtack"
  /\ LET made == initiate(heap, Board)
         firstEmpty == getNextPosition(heap[Board], NoPosition)
     IN  /\ metrics' = reset(metrics)
         /\ heap' = made.heap
         /\ IF noneToAssign(firstEmpty)
            THEN /\ nodes' = <<Node(made.problem, NoNode, Pos(0, 0))>>
                 /\ fringe' = <<>>
                 /\ result' = ReturnNode(1)
                 /\ pc' = "done"
            ELSE /\ nodes' = <<Node(made.problem, NoNode, firstEmpty)>>
                 /\ fringe' = <<1>>
                 /\ result' = Pending
                 /\ pc' = "loop"
  /\ UNCHANGED run
  /\ annealIdle

backtack_forward ==
  /\ pc = "idle"
  /\ run.alg = "backtack_forward"
  /\ LET made == initiate(heap, Board)
         firstEmpty == getNextPosition(heap[Board], NoPosition)
     IN  /\ metrics' = reset(metrics)
         /\ heap' = made.heap
         /\ IF noneToAssign(firstEmpty)
            THEN /\ nodes' = <<Node(made.problem, NoNode, Pos(0, 0))>>
                 /\ fringe' = <<>>
                 /\ result' = ReturnNode(1)
                 /\ pc' = "done"
            ELSE /\ nodes' = <<Node(made.problem, NoNode, firstEmpty)>>
                 /\ fringe' = <<1>>
                 /\ result' = Pending
                 /\ pc' = "loop"
  /\ UNCHANGED run
  /\ annealIdle

backtrack_MRV_LCV ==
  /\ pc = "idle"
  /\ run.alg = "backtrack_MRV_LCV"
  /\ LET made == initiate(heap, Board)
         firstMRV == getMRVPosition(made.heap[made.problem.state],
                                    made.heap[made.problem.domain])
     IN  /\ metrics' = reset(metrics)
         /\ heap' = made.heap
         /\ IF noneToAssign(firstMRV)
            THEN /\ nodes' = <<Node(made.problem, NoNode, Pos(0, 0))>>
                 /\ fringe' = <<>>
                 /\ result' = ReturnNode(1)
                 /\ pc' = "done"
            ELSE /\ nodes' = <<Node(made.problem, NoNode, firstMRV)>>
                 /\ fringe' = <<1>>
                 /\ result' = Pending
                 /\ pc' = "loop"
  /\ UNCHANGED run
  /\ annealIdle

---------------------------------------------------------------------------
(* One iteration of the while loop of each backtracking entry point.  The  *)
(* loop test that follows the iteration is part of it: an empty fringe      *)
(* makes the call return null.                                              *)

\* a pop that reads the oldest entry
poppedOldest(f) == f[1]

popped(f) == f[Len(f)]
afterPop(f) == SubSeq(f, 1, Len(f) - 1)

\* The end of an iteration that did not return the current node.
loopBack(f) ==
  /\ fringe' = f
  /\ IF Len(f) > 0
     THEN result' = Pending /\ pc' = "loop"
     ELSE result' = ReturnNull /\ pc' = "done"

backtack_iteration ==
  /\ pc = "loop"
  /\ run.alg = "backtack"
  /\ LET cur == popped(fringe)
         m1 == [metrics EXCEPT !.nodesExpanded = @ + 1]
         state == heap[nodes[cur].problem.state]
     IN  IF consistent(state)
         THEN IF isgoal(state)
              THEN /\ result' = ReturnNode(cur)
                   /\ pc' = "done"
                   /\ fringe' = afterPop(fringe)
                   /\ metrics' = m1
                   /\ UNCHANGED <<heap, nodes>>
              ELSE LET exp == getChildren(heap, nodes, m1, cur)
                   IN  /\ heap' = exp.heap
                       /\ nodes' = exp.nodes
                       /\ metrics' = exp.metrics
                       /\ loopBack(afterPop(fringe) \o exp.children)
         ELSE /\ metrics' = m1
              /\ UNCHANGED <<heap, nodes>>
              /\ loopBack(afterPop(fringe))
  /\ UNCHANGED run
  /\ annealIdle

backtack_forward_iteration ==
  /\ pc = "loop"
  /\ run.alg = "backtack_forward"
  /\ LET cur == popped(fringe)
         m1 == [metrics EXCEPT !.nodesExpanded = @ + 1]
         state == heap[nodes[cur].problem.state]
     IN  IF consistent(state)
         THEN IF isgoal(state)
              THEN /\ result' = ReturnNode(cur)
                   /\ pc' = "done"
                   /\ fringe' = afterPop(fringe)
                   /\ metrics' = m1
                   /\ UNCHANGED <<heap, nodes>>
              ELSE LET exp == getChildren_forwarding(heap, nodes, m1, cur)
                   IN  /\ heap' = exp.heap
                       /\ nodes' = exp.nodes
                       /\ metrics' = exp.metrics
                       /\ loopBack(afterPop(fringe) \o exp.children)
         ELSE /\ metrics' = m1
              /\ UNCHANGED <<heap, nodes>>
              /\ loopBack(afterPop(fringe))
  /\ UNCHANGED run
  /\ annealIdle

backtrack_MRV_LCV_iteration ==
  /\ pc = "loop"
  /\ run.alg = "backtrack_MRV_LCV"
  /\ LET cur == popped(fringe)
         m1 == [metrics EXCEPT !.nodesExpanded = @ + 1]
         state == heap[nodes[cur].problem.state]
     IN  IF consistent(state)
         THEN IF isgoal(state)
              THEN /\ result' = ReturnNode(cur)
                   /\ pc' = "done"
                   /\ fringe' = afterPop(fringe)
                   /\ metrics' = m1
                   /\ UNCHANGED <<heap, nodes>>
              ELSE LET exp == getChildren_MRV_LCV(heap, nodes, m1, cur)
                   IN  /\ heap' = exp.heap
                       /\ nodes' = exp.nodes
                       /\ metrics' = exp.metrics
                       /\ loopBack(afterPop(fringe) \o exp.children)
         ELSE /\ metrics' = m1
              /\ UNCHANGED <<heap, nodes>>
              /\ loopBack(afterPop(fringe))
  /\ UNCHANGED run
  /\ annealIdle

---------------------------------------------------------------------------
(* Simulated annealing *)

blockCells(blockRow, blockCol) ==
  [k \in 1 .. B * B |-> <<blockRow * B + ((k - 1) \div B), blockCol * B + ((k - 1) % B)>>]

\* missing: the numbers 1..9 not present in the block, ascending
missingOf(state, blockRow, blockCol) ==
  LET cells == blockCells(blockRow, blockCol)
      present == {state[cells[k][1]][cells[k][2]] : k \in 1 .. B * B} \ {NULL}
  IN  SelectSeq(FullDomain, LAMBDA n : n \notin present)

emptyCellsOf(state, blockRow, blockCol) ==
  SelectSeq(blockCells(blockRow, blockCol), LAMBDA p : state[p[1]][p[2]] = NULL)

\* a shuffle that draws with replacement
shufflesWithRepeats(missing) == [1 .. Len(missing) -> 1 .. Len(missing)]

\* The outcomes of the Fisher-Yates shuffle: every ordering of missing.
shuffles(missing) ==
  {f \in [1 .. Len(missing) -> 1 .. Len(missing)] :
     \A a, b \in 1 .. Len(missing) : a # b => f[a] # f[b]}

\* The block filled with missing[idx++] over its empty cells in scan order,
\* for the shuffle outcome f.
fillBlock(state, blockRow, blockCol, f) ==
  LET missing == missingOf(state, blockRow, blockCol)
      empties == emptyCellsOf(state, blockRow, blockCol)
      slot(i, j) == CHOOSE k \in 1 .. Len(empties) : empties[k] = <<i, j>>
  IN  [i \in Idx |-> [j \in Idx |->
        IF /\ i \div B = blockRow /\ j \div B = blockCol /\ state[i][j] = NULL
        THEN missing[f[slot(i, j)]]
        ELSE state[i][j]]]

RECURSIVE fillFrom(_, _)
fillFrom(states, block) ==
  IF block = B * B THEN states
  ELSE fillFrom(UNION {{fillBlock(st, block \div B, block % B, f) :
                          f \in shuffles(missingOf(st, block \div B, block % B))} :
                       st \in states},
                block + 1)

\* Every grid randomCompleteAssignment can return for this state.
randomCompleteAssignment(state) == fillFrom({state}, 0)

\* a row scan that counts one conflict for every earlier equal cell
rowHitsPairs(state, i) ==
  Cardinality({p \in Idx \X Idx : p[1] < p[2] /\ state[i][p[1]] = state[i][p[2]]})

\* The increments of one row scan and of one column scan: a cell counts when
\* its value was already in seen.
rowHits(state, i) ==
  Cardinality({j \in Idx : \E k \in 0 .. j - 1 : state[i][k] = state[i][j]})

colHits(state, j) ==
  Cardinality({i \in Idx : \E k \in 0 .. i - 1 : state[k][j] = state[i][j]})

RECURSIVE conflictsFrom(_, _)
conflictsFrom(state, k) ==
  IF k = N THEN 0
  ELSE rowHits(state, k) + colHits(state, k) + conflictsFrom(state, k + 1)

countConflicts(state) == conflictsFrom(state, 0)

\* Unreachable objects are collected: after an annealing iteration only the
\* caller's two arrays and the current grid are live.
annealHeap(h, grid) == <<h[Board], h[FixedArg], grid>>
Current == 3

simulatedAnnealing ==
  /\ pc = "idle"
  /\ run.alg = "simulatedAnnealing"
  /\ metrics' = reset(metrics)
  /\ \E seed \in randomCompleteAssignment(heap[Board]) :
       /\ heap' = annealHeap(heap, seed)
       /\ current' = Current
       /\ currentConflicts' = countConflicts(seed)
       /\ IF countConflicts(seed) = 0
          THEN result' = ReturnGrid(Current) /\ pc' = "done"
          ELSE IF 0 < run.maxSteps
               THEN result' = Pending /\ pc' = "anneal"
               ELSE result' = ReturnNull /\ pc' = "done"
  /\ step' = 0
  /\ cooled' = 0
  /\ UNCHANGED <<run, nodes, fringe>>

\* the loop test written step <= maxSteps
nextStepOneMore(conflicts) ==
  /\ step' = step + 1
  /\ IF step + 1 <= run.maxSteps /\ conflicts > 0
     THEN result' = Pending /\ pc' = "anneal"
     ELSE /\ result' = IF conflicts = 0 THEN ReturnGrid(current) ELSE ReturnNull
          /\ pc' = "done"

\* The for statement's step++ and test after an iteration that did not
\* return from inside the body, and the return after the loop.
nextStep(conflicts) ==
  /\ step' = step + 1
  /\ IF step + 1 < run.maxSteps /\ conflicts > 0
     THEN result' = Pending /\ pc' = "anneal"
     ELSE /\ result' = IF conflicts = 0 THEN ReturnGrid(current) ELSE ReturnNull
          /\ pc' = "done"

\* an acceptance test that takes improvements only
drawAcceptsNothing(delta) == {FALSE}

\* Math.random() < Math.exp(-delta / T) for delta >= 0: with delta = 0 the
\* bound is 1 and every draw is below it; with delta > 0 the bound lies
\* strictly between 0 and 1 (T >= T_min, and it stays far above the underflow
\* of exp for the iteration counts reached here), so the draw decides.
drawAccepts(delta) == IF delta = 0 THEN {TRUE} ELSE {TRUE, FALSE}

simulatedAnnealing_iteration ==
  /\ pc = "anneal"
  /\ run.alg = "simulatedAnnealing"
  /\ metrics' = [metrics EXCEPT !.iterations = @ + 1]
  /\ \E blockRow \in 0 .. B - 1, blockCol \in 0 .. B - 1 :
       LET fixed == heap[FixedArg]
           cells == SelectSeq(blockCells(blockRow, blockCol),
                              LAMBDA p : ~fixed[p[1]][p[2]])
       IN  IF Len(cells) < 2
           THEN /\ nextStep(currentConflicts)
                /\ UNCHANGED <<heap, current, currentConflicts, cooled>>
           ELSE \E ai \in 1 .. Len(cells), bi \in 1 .. Len(cells) :
                  LET a == cells[ai]
                      b == cells[bi]
                      cur == heap[current]
                      next == [[cur EXCEPT ![a[1]][a[2]] = cur[b[1]][b[2]]]
                                    EXCEPT ![b[1]][b[2]] = cur[a[1]][a[2]]]
                      nextConflicts == countConflicts(next)
                      delta == nextConflicts - currentConflicts
                  IN  IF a = b
                      THEN /\ nextStep(currentConflicts)
                           /\ UNCHANGED <<heap, current, currentConflicts, cooled>>
                      ELSE \E accept \in (IF delta < 0 THEN {TRUE} ELSE drawAccepts(delta)) :
                             LET newConflicts == IF accept THEN nextConflicts
                                                           ELSE currentConflicts
                             IN  /\ heap' = IF accept THEN annealHeap(heap, next) ELSE heap
                                 /\ current' = Current
                                 /\ currentConflicts' = newConflicts
                                 /\ cooled' = cooled + 1
                                 /\ IF newConflicts = 0
                                    THEN /\ result' = ReturnGrid(Current)
                                         /\ pc' = "done"
                                         /\ step' = step
                                    ELSE nextStep(newConflicts)
  /\ UNCHANGED <<run, nodes, fringe>>

---------------------------------------------------------------------------
(* The boards the caller passes and the calls it makes *)

MaxSteps == 2

blank(board, cells) ==
  [i \in Idx |-> [j \in Idx |-> IF <<i, j>> \in cells THEN NULL ELSE board[i][j]]]

put(board, r, c, v) == [board EXCEPT ![r][c] = v]

\* A solved board, and boards derived from it.
Solved == [i \in Idx |-> [j \in Idx |-> ((B * (i % B) + (i \div B) + j) % N) + 1]]
\* full board, two equal digits in row 0
RowClash == put(Solved, 0, 0, Solved[0][1])
\* full board, rows and columns duplicate-free, blocks not
Latin == [i \in Idx |-> [j \in Idx |-> ((i + j) % N) + 1]]
OneHole == blank(Solved, {<<4, 4>>})
LastHole == blank(Solved, {<<8, 8>>})
\* block 0 holds a repeated given and an empty cell
BlockClashHole == blank(put(Solved, 0, 0, Solved[0][1]), {<<1, 1>>})
TwoHoles == blank(Solved, {<<0, 0>>, <<0, 1>>})
ThreeHoles == blank(Solved, {<<0, 0>>, <<0, 1>>, <<1, 0>>})
TwoBlocks == blank(Solved, {<<0, 0>>, <<0, 1>>, <<4, 4>>, <<4, 5>>})
\* two equal digits in row 0 and one empty cell
RowClashHole == blank(RowClash, {<<8, 8>>})
\* givens without a clash that admit no completion
DeadEnd == put(blank(Solved, {<<0, 3>>, <<1, 0>>}), 0, 0, 4)
\* two completions
TwoWays == blank(Solved, {<<0, 0>>, <<0, 3>>, <<0, 6>>, <<1, 0>>, <<1, 3>>, <<1, 6>>})
\* column 1 and row 8 empty: forward checking prunes a child
Cross == blank(Solved, {p \in Idx \X Idx : p[1] = 8 \/ p[2] = 1})
\* six holes in two rows: the MRV+LCV search reaches a cell whose values
\* differ in how many of their hits lie where the block meets the row or column
SixHoles == blank(Solved, {<<2, 1>>, <<2, 2>>, <<2, 5>>, <<4, 1>>, <<4, 2>>, <<4, 5>>})
\* four holes in blocks 0 and 2: one seed puts a third 4 into row 0
TripleRow == blank(Solved, {<<0, 0>>, <<1, 0>>, <<0, 6>>, <<2, 6>>})
\* eleven holes in givens without a clash: the plain search fills nine of them
\* and comes to (5,1) with each digit held by one of the nine
Starved ==
  LET rows == << <<9, 3, 2, 6, 1, 4, 7, 5, 8>>,
                 <<7, NULL, 4, 9, 8, 3, 2, 6, 1>>,
                 <<6, NULL, 8, 5, 2, 7, 9, 4, 3>>,
                 <<NULL, NULL, NULL, 2, 5, 1, 4, 3, 6>>,
                 <<NULL, NULL, NULL, 4, 7, 8, 5, 1, 9>>,
                 <<NULL, NULL, 5, 3, 6, 9, 8, 7, 2>>,
                 <<3, 9, 7, 1, 4, 2, 6, 8, 5>>,
                 <<1, 8, 6, 7, 9, 5, 3, 2, 4>>,
                 <<5, 2, NULL, 8, 3, 6, 1, 9, 7>> >>
  IN  [i \in Idx |-> [j \in Idx |-> rows[i + 1][j + 1]]]
Empty == blank(Solved, Idx \X Idx)
\* a single given: MRV/LCV prunes a child
OneGiven == put(Empty, 2, 4, 8)

BacktrackBoards ==
  {Solved, RowClash, Latin, OneHole, LastHole, TwoHoles, ThreeHoles, RowClashHole,
   BlockClashHole, DeadEnd, TwoWays, Cross, SixHoles, Starved}
DeepBoards == {Empty, OneGiven}
AnnealBoards ==
  {Solved, RowClash, Latin, OneHole, LastHole, TwoHoles, ThreeHoles, TwoBlocks,
   RowClashHole, BlockClashHole, DeadEnd, TripleRow}

BacktrackAlgs == {"backtack", "backtack_forward", "backtrack_MRV_LCV"}

Call(alg, state, maxSteps) == [alg |-> alg, state |-> state, maxSteps |-> maxSteps]

Runs ==
  {Call(a, b, 0) : a \in BacktrackAlgs, b \in BacktrackBoards \cup DeepBoards}
  \cup {Call("simulatedAnnealing", b, k) : b \in AnnealBoards, k \in 0 .. MaxSteps}

\* What an earlier call may have left in the global metrics object: the
\* counters after backtack on a board with one empty cell, and after an
\* annealing call that ran two iterations.
StaleMetrics ==
  {[nodesExpanded |-> 2, childrenGenerated |-> 9, maxDepth |-> 1, iterations |-> 0],
   [nodesExpanded |-> 0, childrenGenerated |-> 0, maxDepth |-> 0, iterations |-> 2]}

Init ==
  /\ run \in Runs
  /\ heap = <<run.state, fixedOf(run.state)>>
  /\ nodes = <<>>
  /\ fringe = <<>>
  /\ metrics \in {ZeroMetrics} \cup StaleMetrics
  /\ pc = "idle"
  /\ result = Pending
  /\ current = NoRef
  /\ currentConflicts = 0
  /\ step = 0
  /\ cooled = 0

Next ==
  \/ backtack
  \/ backtack_iteration
  \/ backtack_forward
  \/ backtack_forward_iteration
  \/ backtrack_MRV_LCV
  \/ backtrack_MRV_LCV_iteration
  \/ simulatedAnnealing
  \/ simulatedAnnealing_iteration

Spec == Init /\ [][Next]_vars

\* What every step of a call does to the program counter and the counters:
\* an entry resets the counters, a pop counts one expansion, up to nine
\* children and a depth, an annealing iteration counts itself.
Iteration ==
  /\ pc # "done"
  /\ pc' \in {"loop", "anneal", "done"}
  /\ metrics' \in
       {reset(metrics), [metrics EXCEPT !.iterations = @ + 1]}
       \cup {[metrics EXCEPT !.nodesExpanded = @ + 1,
                             !.childrenGenerated = @ + c,
                             !.maxDepth = d] : c \in 0 .. N, d \in 0 .. N * N}

\* The searches are plain sequential loops on one thread: a call that has
\* not returned executes its next iteration.  Every step of Next from such a
\* state is an Iteration step that changes <<pc, metrics>>, so this is weak
\* fairness of Next, stated on the part of the state a step always moves.
FairSpec == Spec /\ WF_<<pc, metrics>>(Iteration)

---------------------------------------------------------------------------
(* Vocabulary of the properties *)

Cells == Idx \X Idx

sameBlock(p, q) == p[1] \div B = q[1] \div B /\ p[2] \div B = q[2] \div B

peers(p, q) == p # q /\ (p[1] = q[1] \/ p[2] = q[2] \/ sameBlock(p, q))

emptyCells(board) == {p \in Cells : board[p[1]][p[2]] = NULL}

\* no two filled cells of one row, column or block hold the same digit
NoClash(board) ==
  \A p, q \in Cells :
    (peers(p, q) /\ board[p[1]][p[2]] # NULL) => board[p[1]][p[2]] # board[q[1]][q[2]]

\* every row, column and block holds each of 1..9 exactly once
FullyValid(board) ==
  \A d \in Digits, k \in Idx :
    /\ Cardinality({j \in Idx : board[k][j] = d}) = 1
    /\ Cardinality({i \in Idx : board[i][k] = d}) = 1
    /\ Cardinality({p \in Cells : p[1] \div B = k \div B /\ p[2] \div B = k % B
                                  /\ board[p[1]][p[2]] = d}) = 1

HasRowClash(board) ==
  \E i \in Idx, j, k \in Idx : j # k /\ board[i][j] # NULL /\ board[i][j] = board[i][k]

HasBlockClash(board) ==
  \E p, q \in Cells :
    p # q /\ sameBlock(p, q) /\ board[p[1]][p[2]] # NULL
          /\ board[p[1]][p[2]] = board[q[1]][q[2]]

Backtracking == run.alg \in BacktrackAlgs
Annealing == run.alg = "simulatedAnnealing"
Returned == pc = "done"
Solution == solutionOf(nodes, result)
Succeeded == Returned /\ Solution # NoRef

---------------------------------------------------------------------------
(* C1 - C3: what a call returns *)

\* C1: whenever one of the four entry points returns a non-failure result,
\* the returned grid is fully valid: every row, column and block holds each of
\* 1..9 exactly once.
C1_SuccessIsFullyValid == Succeeded => FullyValid(heap[Solution])

\* C2: on a board without empty cells every search returns with
\* nodesExpanded = 0, and returns the board if and only if it has no clash;
\* otherwise it returns failure.
C2_FullBoardReturnedIffConsistent ==
  (Returned /\ emptyCells(run.state) = {}) =>
    /\ metrics.nodesExpanded = 0
    /\ NoClash(run.state) => (Solution # NoRef /\ heap[Solution] = run.state)
    /\ ~NoClash(run.state) => Solution = NoRef

\* C3: a backtracking entry point called on a board without empty cells
\* returns at once a root node that holds the given board: no node is popped,
\* no child is generated.
C3_FullBoardReturnsRoot ==
  (Backtracking /\ emptyCells(run.state) = {} /\ pc # "idle") =>
    /\ Returned
    /\ result.node # NoNode
    /\ Len(nodes) = 1
    /\ nodes[result.node].parent = NoNode
    /\ nodes[result.node].problem.state = Board
    /\ heap[Board] = run.state
    /\ metrics.nodesExpanded = 0
    /\ metrics.childrenGenerated = 0
    /\ fringe = <<>>

C3_Witness ==
  /\ Returned
  /\ run.alg = "backtrack_MRV_LCV"
  /\ emptyCells(run.state) = {}
  /\ result.node # NoNode

---------------------------------------------------------------------------
(* C4 - C7: the backtracking family *)

firstEmptyCell(board) ==
  CHOOSE p \in emptyCells(board) :
    \A q \in emptyCells(board) : p[1] * N + p[2] <= q[1] * N + q[2]

legalAt(board, p, d) == \A q \in Cells : peers(p, q) => board[q[1]][q[2]] # d

\* The board has a fully valid completion: decided by trying, cell by cell,
\* the digits no filled peer holds.
RECURSIVE Completable(_)
Completable(board) ==
  IF emptyCells(board) = {} THEN FullyValid(board)
  ELSE LET p == firstEmptyCell(board)
       IN  \E d \in Digits :
             legalAt(board, p, d) /\ Completable(put(board, p[1], p[2], d))

HasCompletion(board) == NoClash(board) /\ Completable(board)

\* C4: each backtracking variant is exhaustive: on a board with an empty cell
\* it returns a goal node when the givens have a valid completion and returns
\* failure only when they have none; plain backtracking on the empty board
\* returns a fully valid grid with nodesExpanded > 0.
C4_Exhaustive ==
  (Returned /\ Backtracking /\ emptyCells(run.state) # {}) =>
    /\ metrics.nodesExpanded > 0
    /\ result.node # NoNode =>
         /\ emptyCells(heap[Solution]) = {}
         /\ FullyValid(heap[Solution])
    /\ HasCompletion(run.state) <=> result.node # NoNode

\* a board with two completions, solved after dead ends were discarded
C4_Witness ==
  /\ Returned
  /\ run.alg = "backtack"
  /\ run.state = TwoWays
  /\ result.node # NoNode
  /\ metrics.nodesExpanded > Cardinality(emptyCells(run.state)) + 1

\* C5: on a board with two equal digits in one row every backtracking variant
\* returns failure, and consistent is false of the board.
C5_RowClashFails ==
  (Returned /\ Backtracking /\ HasRowClash(run.state)) =>
    /\ Solution = NoRef
    /\ ~consistent(run.state)

\* The boards C6 is about: one empty cell, and exactly one digit there makes
\* the board fully valid.
forcedDigits(board) ==
  {d \in Digits :
     \A p \in emptyCells(board) : FullyValid(put(board, p[1], p[2], d))}

OneForcedCell(board) ==
  Cardinality(emptyCells(board)) = 1 /\ Cardinality(forcedDigits(board)) = 1

\* C6: on a board with exactly one empty cell whose value is forced, all four
\* algorithms return the board completed with that value, and plain
\* backtracking generates at most 9 children.
C6_ForcedCellCompleted ==
  (Returned /\ OneForcedCell(run.state)) =>
    /\ Solution # NoRef
    /\ \E d \in forcedDigits(run.state), p \in emptyCells(run.state) :
         heap[Solution] = put(run.state, p[1], p[2], d)
    /\ run.alg = "backtack" => metrics.childrenGenerated <= N

C6_Witness ==
  /\ Returned
  /\ Annealing
  /\ OneForcedCell(run.state)
  /\ Solution # NoRef

\* a cell without a value whose candidate list is empty
starved(board, domain) ==
  {p \in Cells : board[p[1]][p[2]] = NULL /\ domain[p[1]][p[2]] = <<>>}

\* the children an expansion tried and did not keep: every try allocates a
\* grid and a domain matrix, every kept child is a node
pruned == (Len(heap) - 4) \div 2 - (Len(nodes) - 1)

\* C7: in the forward-checking and MRV+LCV variants every node created, the
\* root and every generated child, has no unassigned cell with an empty
\* domain.
C7_NoStarvedCellInNewNode ==
  [][run.alg \in {"backtack_forward", "backtrack_MRV_LCV"} =>
       \A n \in 1 .. Len(nodes') :
         n > Len(nodes) =>
           starved(heap'[nodes'[n].problem.state],
                   heap'[nodes'[n].problem.domain]) = {}]_vars

C7_Witness ==
  /\ run.alg = "backtrack_MRV_LCV"
  /\ Len(nodes) > 1
  /\ pruned > 0

---------------------------------------------------------------------------
(* C8: updateDomain and its input *)

\* the cell a child assigned: the one where its grid differs from its parent's
assignedCell(before, after) ==
  CHOOSE p \in Cells : before[p[1]][p[2]] # after[p[1]][p[2]]

\* C8: updateDomain never mutates its input domain matrix: across an expansion
\* the expanded node's domain matrix keeps its value, and every call made with
\* that matrix returns a new matrix that is the function of (matrix, position,
\* value) alone, whatever the calls made before it for the siblings.
C8_UpdateDomainKeepsInput ==
  [][(Backtracking /\ pc = "loop") =>
       LET parent == popped(fringe)
           input == nodes[parent].problem.domain
       IN  /\ heap'[input] = heap[input]
           /\ \A n \in 1 .. Len(nodes') :
                n > Len(nodes) =>
                  LET before == heap[nodes[parent].problem.state]
                      after == heap'[nodes'[n].problem.state]
                      p == assignedCell(before, after)
                  IN  /\ nodes'[n].parent = parent
                      /\ nodes'[n].problem.domain # input
                      /\ heap'[nodes'[n].problem.domain]
                           = newDomainOf(heap[input], Pos(p[1], p[2]), after[p[1]][p[2]])]_vars

C8_Witness ==
  /\ Backtracking
  /\ Len(nodes) > 2
  /\ \E n \in 2 .. Len(nodes) :
       heap[nodes[n].problem.domain] # heap[nodes[nodes[n].parent].problem.domain]

---------------------------------------------------------------------------
(* C9 - C10: simulated annealing *)

blockOf(k) == {p \in Cells : p[1] \div B = k \div B /\ p[2] \div B = k % B}

\* a complete grid whose blocks are permutations of 1..9 and that keeps the givens
SeedOf(board, grid) ==
  /\ emptyCells(grid) = {}
  /\ \A k \in Idx : {grid[p[1]][p[2]] : p \in blockOf(k)} = Digits
  /\ \A p \in Cells : board[p[1]][p[2]] # NULL => grid[p[1]][p[2]] = board[p[1]][p[2]]

\* C9: for a board in which no block holds a repeated given, every outcome of
\* the seed step is a completely filled grid in which each block is a
\* permutation of 1..9 and each given keeps its value.
C9_SeedFillsBlocks ==
  [][(Annealing /\ pc = "idle" /\ ~HasBlockClash(run.state)) =>
       SeedOf(run.state, heap'[current'])]_vars

C9_Witness ==
  /\ Annealing
  /\ pc = "anneal"
  /\ step = 0
  /\ ~HasBlockClash(run.state)
  /\ Cardinality(emptyCells(run.state)) >= 3
  /\ SeedOf(run.state, heap[current])

C10_State ==
  (Annealing /\ pc # "idle") =>
    /\ step <= run.maxSteps
    /\ metrics.iterations <= run.maxSteps
    /\ pc = "anneal" => (step < run.maxSteps /\ currentConflicts > 0)
    /\ (Returned /\ result.grid # NoRef) =>
         (result.grid = current /\ countConflicts(heap[current]) = 0)
    /\ (Returned /\ result.grid = NoRef) =>
         /\ countConflicts(heap[current]) > 0
         /\ step = run.maxSteps
         /\ metrics.iterations = run.maxSteps
    /\ (Returned /\ run.maxSteps = 0) => (metrics.iterations = 0 /\ cooled = 0)

\* an iteration either returns or uses up one step of the budget, move or not
C10_Step ==
  (Annealing /\ pc = "anneal") =>
    \/ pc' = "done" /\ metrics'.iterations = metrics.iterations + 1
    \/ /\ pc' = "anneal"
       /\ step' = step + 1
       /\ metrics'.iterations = metrics.iterations + 1

\* C10: simulatedAnnealing ends after at most maxSteps loop iterations, an
\* iteration without a move using up a step like any other; it returns the
\* current grid exactly when its conflict count is zero, as soon as that
\* happens, and returns failure exactly when the budget is used up with
\* conflicts left; with maxSteps = 0 it returns the seed if the seed has no
\* conflict and failure otherwise.
C10_AnnealingBudget == []C10_State /\ [][C10_Step]_vars

C10_Witness ==
  /\ Annealing
  /\ Returned
  /\ result.grid = NoRef
  /\ run.maxSteps > 0
  /\ cooled < step
  /\ cooled > 0

---------------------------------------------------------------------------
(* C11 - C12: the metrics *)

onFringe(n) == \E k \in 1 .. Len(fringe) : fringe[k] = n

\* the nodes the loop has taken off the fringe
poppedNodes == {n \in 1 .. Len(nodes) : ~onFringe(n)}

\* a popped node that was handed to the expansion and reached its depth
\* bookkeeping
expanded(n) ==
  LET state == heap[nodes[n].problem.state]
  IN  /\ ~onFringe(n)
      /\ consistent(state)
      /\ ~isgoal(state)
      /\ run.alg = "backtrack_MRV_LCV" =>
           getMRVPosition(state, heap[nodes[n].problem.domain]) # NoPosition

\* The deepest expansion.  A node with a child was expanded one level above
\* the child, so the value is the depth of the deepest node, or one more when
\* a node of that depth was expanded and no child of it was kept.
deepest ==
  LET depths == {getDepth(nodes, n) : n \in 1 .. Len(nodes)}
      D == CHOOSE d \in depths : \A e \in depths : e <= d
  IN  IF \E n \in 1 .. Len(nodes) : getDepth(nodes, n) = D /\ expanded(n)
      THEN D + 1 ELSE D

\* The counters of a call that started on zeroed counters, read off the
\* search state alone: one expansion per popped node, one generated child per
\* node below the root, the deepest expansion, and for annealing one
\* iteration per step begun.
FreshMetrics ==
  IF Backtracking
  THEN IF emptyCells(run.state) = {} THEN ZeroMetrics
       ELSE [nodesExpanded     |-> Len(nodes) - Len(fringe),
             childrenGenerated |-> Len(nodes) - 1,
             maxDepth          |-> deepest,
             iterations        |-> 0]
  ELSE [ZeroMetrics EXCEPT
          !.iterations = IF Returned /\ result.grid # NoRef /\ cooled > 0
                         THEN step + 1 ELSE step]

\* C11: the counters are reset on entry to every search call: whatever an
\* earlier call left in them, from the first step of a call on they hold
\* exactly what the call produces on zeroed counters.
C11_MetricsOfThisCallOnly == pc # "idle" => metrics = FreshMetrics

\* a call that ends with counters unlike any an earlier call left behind
C11_Witness ==
  /\ Returned
  /\ run.alg = "backtack"
  /\ run.state = TwoWays
  /\ metrics.nodesExpanded = 33
  /\ metrics.childrenGenerated = 46
  /\ metrics.maxDepth = 6
  /\ metrics \notin StaleMetrics

\* the blocks in which a swap can be attempted: two or more non-fixed cells
swappableBlocks ==
  {k \in Idx : Cardinality({p \in blockOf(k) : ~heap[FixedArg][p[1]][p[2]]}) >= 2}

\* C12: metrics.iterations counts the loop iterations that attempted a step:
\* every iteration that went through to the cooling is counted, and an
\* iteration skipped because the chosen block has fewer than two non-fixed
\* cells is not, so on a board without a block of two non-fixed cells the
\* count stays zero.
C12_IterationsCountAttempts ==
  (Annealing /\ pc # "idle") =>
    /\ metrics.iterations >= cooled
    /\ swappableBlocks = {} => metrics.iterations = 0

---------------------------------------------------------------------------
(* C13: copy-on-write *)

\* every object that exists before the step has the same value after it
heapKept == \A a \in 1 .. Len(heap) : heap'[a] = heap[a]

\* every node that exists before the step is the same node after it
nodesKept == \A n \in 1 .. Len(nodes) : nodes'[n] = nodes[n]

\* the nodes a step creates own a grid and a domain matrix made in that step
newNodesOwnCopies ==
  \A n \in 1 .. Len(nodes') :
    n > Len(nodes) =>
      /\ nodes'[n].problem.domain > Len(heap)
      /\ (pc = "loop" => nodes'[n].problem.state > Len(heap))
      /\ \A m \in 1 .. Len(nodes') :
           m # n => /\ nodes'[m].problem.state # nodes'[n].problem.state
                    /\ nodes'[m].problem.domain # nodes'[n].problem.domain

C13_Step ==
  /\ heap'[Board] = heap[Board]
  /\ heap'[FixedArg] = heap[FixedArg]
  /\ Backtracking => (heapKept /\ nodesKept /\ newNodesOwnCopies)

\* C13: expansion is copy-on-write: a step of any backtracking variant leaves
\* every existing grid, domain matrix and fixed mask, the expanded node's
\* among them, and every existing node as they were, the nodes it creates own
\* new copies, and during and after each of the four calls the caller's grid
\* holds what the caller passed.
C13_CopyOnWrite == [](heap[Board] = run.state) /\ [][C13_Step]_vars

C13_Witness ==
  /\ Returned
  /\ run.alg = "backtack_forward"
  /\ result.node # NoNode
  /\ Len(nodes) > 3
  /\ heap[Solution] # run.state
  /\ heap[Board] = run.state
  /\ heap[nodes[1].problem.domain] = inititationHelper(run.state).domain

---------------------------------------------------------------------------
(* C14 - C16: value and variable ordering of the MRV+LCV variant *)

\* the number of domain entries assigning v at p eliminates: the unassigned
\* peers of p whose domain contains v, each counted once
elimination(state, domain, p, v) ==
  Cardinality({q \in Cells : /\ peers(p, q)
                             /\ state[q[1]][q[2]] = NULL
                             /\ Includes(domain[q[1]][q[2]], v)})

\* the elimination count of the value a child assigned, taken in its parent
childCount(n) ==
  LET parent == nodes[n].parent
      before == heap[nodes[parent].problem.state]
      after == heap[nodes[n].problem.state]
      p == assignedCell(before, after)
  IN  elimination(before, heap[nodes[parent].problem.domain], p, after[p[1]][p[2]])

\* C14: in the MRV+LCV variant the children of one node are explored least
\* constraining first: of two siblings on the fringe the one that will be
\* popped first (the one nearer the top) has the smaller or equal elimination
\* count.
C14_LeastConstrainingFirst ==
  (run.alg = "backtrack_MRV_LCV" /\ pc = "loop") =>
    \A k, l \in 1 .. Len(fringe) :
      (k < l /\ nodes[fringe[k]].parent = nodes[fringe[l]].parent
             /\ nodes[fringe[k]].parent # NoNode) =>
        childCount(fringe[l]) <= childCount(fringe[k])

indexOf(seq, v) == CHOOSE k \in 1 .. Len(seq) : seq[k] = v

\* out holds the values of p's domain ascending by elimination count, values
\* of equal count in the order of the domain
LcvOrdered(state, domain, p, out) ==
  LET values == domain[p[1]][p[2]]
      count(v) == elimination(state, domain, p, v)
  IN  /\ Len(out) = Len(values)
      /\ {out[k] : k \in 1 .. Len(out)} = {values[k] : k \in 1 .. Len(values)}
      /\ \A i, j \in 1 .. Len(out) :
           i < j => \/ count(out[i]) < count(out[j])
                    \/ /\ count(out[i]) = count(out[j])
                       /\ indexOf(values, out[i]) < indexOf(values, out[j])

\* the node the next iteration pops is one getChildren_MRV_LCV orders values for
lcvCalled ==
  /\ run.alg = "backtrack_MRV_LCV"
  /\ pc = "loop"
  /\ LET state == heap[nodes[popped(fringe)].problem.state]
     IN  /\ consistent(state)
         /\ ~isgoal(state)
         /\ getMRVPosition(state, heap[nodes[popped(fringe)].problem.domain]) # NoPosition

\* C15: getLCV returns the values of the position's domain ascending by the
\* number of unassigned cells other than the position, in its row, column or
\* block and each counted once, whose domain contains the value; values of
\* equal count keep the order of the domain.
C15_LcvAscendingByElimination ==
  lcvCalled =>
    LET state == heap[nodes[popped(fringe)].problem.state]
        domain == heap[nodes[popped(fringe)].problem.domain]
        pos == getMRVPosition(state, domain)
    IN  LcvOrdered(state, domain, <<pos.row, pos.col>>, getLCV(state, domain, pos))

\* the unassigned cells that still have a candidate
openCells(state, domain) ==
  {q \in Cells : state[q[1]][q[2]] = NULL /\ domain[q[1]][q[2]] # <<>>}

before(p, q) == p[1] < q[1] \/ (p[1] = q[1] /\ p[2] < q[2])

\* p is the unassigned cell with the smallest non-empty domain, the first in
\* row-major order of those
IsMrvCell(state, domain, p) ==
  /\ p \in openCells(state, domain)
  /\ \A q \in openCells(state, domain) \ {p} :
       \/ Len(domain[p[1]][p[2]]) < Len(domain[q[1]][q[2]])
       \/ Len(domain[p[1]][p[2]]) = Len(domain[q[1]][q[2]]) /\ before(p, q)

C16_Step ==
  run.alg = "backtrack_MRV_LCV" =>
    \A n \in 1 .. Len(nodes') :
      n > Len(nodes) =>
        LET state == heap'[nodes'[n].problem.state]
            domain == heap'[nodes'[n].problem.domain]
        IN  /\ getMRVPosition(state, domain) = NoPosition =>
                 openCells(state, domain) = {}
            /\ pc = "loop" =>
                 LET parent == nodes[popped(fringe)].problem
                 IN  IsMrvCell(heap[parent.state], heap[parent.domain],
                               assignedCell(heap[parent.state], state))

\* C16: every child of an expansion of the MRV+LCV variant assigns the
\* unassigned cell with the smallest non-empty domain of the expanded node,
\* the first in row-major order among the smallest; and getMRVPosition gives
\* no position, for the root or for a child, only when no unassigned cell has
\* a non-empty domain.
C16_MrvCellAssigned == [][C16_Step]_vars

\* a child that assigned a cell other than the first empty one, and a
\* complete child without a next position
C16_Witness ==
  /\ run.alg = "backtrack_MRV_LCV"
  /\ Len(nodes) > 1
  /\ \E n \in 2 .. Len(nodes) :
       LET state == heap[nodes[nodes[n].parent].problem.state]
       IN  assignedCell(state, heap[nodes[n].problem.state]) # firstEmptyCell(state)
  /\ \E n \in 2 .. Len(nodes) :
       getMRVPosition(heap[nodes[n].problem.state],
                      heap[nodes[n].problem.domain]) = NoPosition

---------------------------------------------------------------------------
(* C17 - C18: the loop of the backtracking variants *)

top == fringe[Len(fringe)]

RECURSIVE descendsFromLater(_, _)
\* d, or a node d descends from, was pushed after o
descendsFromLater(d, o) ==
  IF d > o THEN TRUE
  ELSE IF nodes[d].parent = NoNode THEN FALSE
  ELSE descendsFromLater(nodes[d].parent, o)

\* Nodes are numbered in the order they were pushed.  The fringe holds them
\* oldest first; depths do not decrease towards the top; and a node pushed
\* after the top node was (so popped while the top node was on the fringe)
\* is no longer on the fringe and has no descendant on it.
C17_State ==
  (Backtracking /\ pc = "loop") =>
    /\ \A k \in 1 .. Len(fringe) - 1 :
         /\ fringe[k] < fringe[k + 1]
         /\ getDepth(nodes, fringe[k]) <= getDepth(nodes, fringe[k + 1])
    /\ \A k \in 1 .. Len(fringe) : ~descendsFromLater(fringe[k], top)

\* an iteration takes the top node off, works on it, and pushes what it
\* creates on top in the order of creation
C17_Step ==
  (Backtracking /\ pc = "loop") =>
    /\ fringe' = SubSeq(fringe, 1, Len(fringe) - 1)
                   \o [k \in 1 .. Len(nodes') - Len(nodes) |-> Len(nodes) + k]
    /\ \A n \in Len(nodes) + 1 .. Len(nodes') : nodes'[n].parent = top
    /\ result'.node \in {NoNode, top}

\* C17: the frontier of every backtracking variant is a stack: the node popped
\* is the most recently pushed one still on it, the depths of the nodes on it
\* are non-decreasing from bottom to top, and by the time a node is popped
\* every node pushed after it, with all its descendants, has been popped.
C17_DepthFirst == []C17_State /\ [][C17_Step]_vars

\* a fringe holding nodes of three different depths with an older branch
\* still waiting below
C17_Witness ==
  /\ Backtracking
  /\ pc = "loop"
  /\ Len(fringe) > 3
  /\ getDepth(nodes, fringe[1]) + 1 < getDepth(nodes, top)
  /\ \E n \in top + 1 .. Len(nodes) : nodes[n].parent > fringe[1]

created == Len(nodes') - Len(nodes)

C18_Step ==
  (Backtracking /\ pc = "loop") =>
    LET state == heap[nodes[top].problem.state]
    IN  /\ metrics'.nodesExpanded = metrics.nodesExpanded + 1
        /\ metrics'.childrenGenerated = metrics.childrenGenerated + created
        /\ created > 0 => (NoClash(state) /\ emptyCells(state) # {})
        /\ ~NoClash(state) =>
             /\ created = 0
             /\ fringe' = SubSeq(fringe, 1, Len(fringe) - 1)
             /\ result'.node = NoNode
        /\ (NoClash(state) /\ emptyCells(state) = {}) =>
             /\ created = 0
             /\ pc' = "done"
             /\ result' = ReturnNode(top)
        /\ result'.node # NoNode => (NoClash(state) /\ emptyCells(state) = {})

\* C18: in every backtracking variant each popped node adds exactly one to
\* nodesExpanded; children are generated only from a popped node that has no
\* clash and has an empty cell; a popped node with a clash is dropped and
\* nothing is pushed; and a popped node without a clash and without an empty
\* cell is returned in that very iteration, which ends the search.
C18_PopDiscardOrReturn == [][C18_Step]_vars

\* a search that dropped a clashing node, expanded others and returned a goal
C18_Witness ==
  /\ Returned
  /\ run.alg = "backtack_forward"
  /\ run.state = TwoWays
  /\ result.node # NoNode
  /\ metrics.nodesExpanded > 3
  /\ \E n \in poppedNodes : ~NoClash(heap[nodes[n].problem.state])

---------------------------------------------------------------------------
(* C19: forward checking against plain backtracking *)

\* what a node is, whatever the addresses of its objects
contentOf(h, node) ==
  [state        |-> h[node.problem.state],
   domain       |-> h[node.problem.domain],
   fixed        |-> h[node.problem.fixed],
   parent       |-> node.parent,
   lastAssigned |-> node.lastAssigned]

\* the children an expansion created, in the order it pushed them
childrenOf(exp) ==
  [k \in 1 .. Len(exp.children) |-> contentOf(exp.heap, exp.nodes[exp.children[k]])]

C19_Step ==
  (/\ run.alg = "backtack_forward"
   /\ pc = "loop"
   /\ NoClash(heap[nodes[top].problem.state])
   /\ emptyCells(heap[nodes[top].problem.state]) # {}) =>
    LET plain == childrenOf(getChildren(heap, nodes, metrics, top))
        kept == SelectSeq(plain, LAMBDA c : starved(c.state, c.domain) = {})
        target == nodes[top].lastAssigned
    IN  /\ Len(plain) = Len(heap[nodes[top].problem.domain][target.row][target.col])
        /\ [k \in 1 .. created |-> contentOf(heap', nodes'[Len(nodes) + k])] = kept
        /\ SubSeq(fringe', Len(fringe), Len(fringe') ) =
             [k \in 1 .. created |-> Len(nodes) + k]

\* C19: when the forward-checking variant expands a node, the children it
\* generates are the children plain backtracking generates from that node,
\* one per value of the target cell's domain, without those in which an
\* unassigned cell has an empty domain after the assignment and updateDomain,
\* and in the same order: a value gets a child exactly when no unassigned
\* cell of that child has an empty domain.
C19_ForwardIsFilteredPlain == [][C19_Step]_vars

\* an expansion that kept some children and pruned others
C19_Witness ==
  /\ run.alg = "backtack_forward"
  /\ \E n \in 1 .. Len(nodes) :
       LET kids == {m \in 1 .. Len(nodes) : nodes[m].parent = n}
           target == nodes[n].lastAssigned
       IN  /\ Cardinality(kids) > 1
           /\ Cardinality(kids)
                < Len(heap[nodes[n].problem.domain][target.row][target.col])

---------------------------------------------------------------------------
(* C20: what updateDomain returns *)

\* D2 is D with p's domain emptied, v taken out of the domain of every other
\* cell in p's row, column or block, and every remaining cell as it was
UpdatedAs(D, p, v, D2) ==
  \A c \in Cells :
    D2[c[1]][c[2]] =
      IF c = p THEN <<>>
      ELSE IF peers(p, c) THEN SelectSeq(D[c[1]][c[2]], LAMBDA x : x # v)
      ELSE D[c[1]][c[2]]

\* every try of an expansion allocates its grid and then its domain matrix
tries == (Len(heap') - Len(heap)) \div 2

C20_Step ==
  (Backtracking /\ pc = "loop") =>
    \A k \in 1 .. tries :
      LET parent == nodes[top].problem
          grid == heap'[Len(heap) + 2 * k - 1]
          p == assignedCell(heap[parent.state], grid)
      IN  UpdatedAs(heap[parent.domain], p, grid[p[1]][p[2]], heap'[Len(heap) + 2 * k])

\* C20: the matrix updateDomain returns for a domain matrix, a position and a
\* value has an empty domain at the position, the input's domain without the
\* value at every other cell of the position's row, column or block, and the
\* input's domain at every cell that shares none of them; checked on every
\* call the three backtracking variants make, for kept and for pruned
\* children.
C20_UpdateDomainOneHop == [][C20_Step]_vars

\* a call that took the value out of a cell sharing only the block with the
\* position and left it in a cell that shares nothing with it
C20_Witness ==
  /\ Backtracking
  /\ \E n \in 2 .. Len(nodes) :
       LET D == heap[nodes[nodes[n].parent].problem.domain]
           D2 == heap[nodes[n].problem.domain]
           after == heap[nodes[n].problem.state]
           p == assignedCell(heap[nodes[nodes[n].parent].problem.state], after)
           v == after[p[1]][p[2]]
       IN  /\ \E c \in Cells : /\ sameBlock(p, c) /\ c[1] # p[1] /\ c[2] # p[2]
                                /\ Includes(D[c[1]][c[2]], v)
                                /\ ~Includes(D2[c[1]][c[2]], v)
           /\ \E c \in Cells : /\ c # p /\ ~peers(p, c)
                                /\ Includes(D2[c[1]][c[2]], v)

---------------------------------------------------------------------------
(* C21: consistent and isgoal *)

\* the grids the search hands to consistent and isgoal: the caller's board
\* and the grid of the node about to be popped
gridsChecked ==
  {run.state} \cup
  (IF Backtracking /\ pc = "loop" THEN {heap[nodes[top].problem.state]} ELSE {})

\* C21: consistent is true of a problem exactly when no two filled cells of
\* one row, column or block of its grid hold the same value, and isgoal is
\* true exactly when the grid has no empty cell and consistent is true; both
\* are functions of the grid alone.
C21_ConsistentIsNoClash ==
  \A g \in gridsChecked :
    /\ consistent(g) <=> NoClash(g)
    /\ isgoal(g) <=> (emptyCells(g) = {} /\ NoClash(g))

\* a popped grid whose only clash is inside a block, across rows and columns
C21_Witness ==
  /\ Backtracking
  /\ pc = "loop"
  /\ LET g == heap[nodes[top].problem.state]
     IN  /\ ~consistent(g)
         /\ emptyCells(g) # {}
         /\ \A p, q \in Cells :
              (p # q /\ g[p[1]][p[2]] # NULL /\ g[p[1]][p[2]] = g[q[1]][q[2]]) =>
                (p[1] # q[1] /\ p[2] # q[2])

---------------------------------------------------------------------------
(* C22: the domains of a node *)

\* the problem initiate builds for a board
InitialProblem(board, problem) ==
  \A c \in Cells :
    IF board[c[1]][c[2]] # NULL
    THEN heap'[problem.fixed][c[1]][c[2]] /\ heap'[problem.domain][c[1]][c[2]] = <<>>
    ELSE /\ ~heap'[problem.fixed][c[1]][c[2]]
         /\ heap'[problem.domain][c[1]][c[2]] = [k \in 1 .. N |-> k]

C22_Step ==
  Backtracking =>
    \A n \in Len(nodes) + 1 .. Len(nodes') :
      LET state == heap'[nodes'[n].problem.state]
          domain == heap'[nodes'[n].problem.domain]
      IN  /\ nodes'[n].parent = NoNode => InitialProblem(run.state, nodes'[n].problem)
          /\ \A c \in Cells :
               IF state[c[1]][c[2]] # NULL
               THEN domain[c[1]][c[2]] = <<>>
               ELSE {domain[c[1]][c[2]][k] : k \in 1 .. Len(domain[c[1]][c[2]])}
                      \subseteq Digits

\* C22: the root's problem has, for a filled cell, fixed = true and an empty
\* domain and, for an empty cell, fixed = false and the domain 1..9 whatever
\* the givens around it; and in every node a backtracking variant creates
\* every assigned cell has an empty domain and every unassigned cell's
\* domain is a subset of 1..9.
C22_AssignedCellsHaveNoDomain == [][C22_Step]_vars

\* a node below the root with an unassigned cell that lost candidates and an
\* unassigned cell that kept them all
C22_Witness ==
  /\ Backtracking
  /\ emptyCells(run.state) # Cells
  /\ \E n \in 2 .. Len(nodes) :
       LET state == heap[nodes[n].problem.state]
           domain == heap[nodes[n].problem.domain]
       IN  /\ \E c \in emptyCells(state) : Len(domain[c[1]][c[2]]) \in 1 .. N - 2
           /\ \E c \in emptyCells(state) : Len(domain[c[1]][c[2]]) = N

---------------------------------------------------------------------------
(* C23: what countConflicts counts *)

rowOf(i) == {<<i, j>> : j \in Idx}
colOf(j) == {<<i, j>> : i \in Idx}
lines == {rowOf(k) : k \in Idx} \cup {colOf(k) : k \in Idx}

\* the unordered pairs of cells of a line that hold equal values
equalPairs(grid, line) ==
  {pq \in line \X line :
     /\ before(pq[1], pq[2])
     /\ grid[pq[1][1]][pq[1][2]] = grid[pq[2][1]][pq[2][2]]}

\* the cells of a line beyond one per value held
repeats(grid, line) ==
  Cardinality(line) - Cardinality({grid[p[1]][p[2]] : p \in line})

RECURSIVE sumOver(_, _, _)
sumOver(F(_, _), grid, ls) ==
  IF ls = {} THEN 0
  ELSE LET l == CHOOSE x \in ls : TRUE
       IN  F(grid, l) + sumOver(F, grid, ls \ {l})

pairCount(grid, line) == Cardinality(equalPairs(grid, line))

\* C23 as stated: on a completely filled grid countConflicts is the number
\* of unordered pairs of cells with equal values in one row plus the number
\* of such pairs in one column, three equal values in a row counting 3.
C23_CountsPairs ==
  (Annealing /\ pc # "idle") =>
    countConflicts(heap[current]) = sumOver(pairCount, heap[current], lines)

\* C23 amended: on a completely filled grid countConflicts is, summed over
\* the rows and the columns, the number of cells of the line beyond one per
\* value held (three equal values in a row count 2); it is the number of
\* equal pairs when no value occurs three times in a line, never more than
\* it, and zero exactly when there is no such pair; blocks are not counted.
C23_CountsRepeats ==
  (Annealing /\ pc # "idle") =>
    LET grid == heap[current]
        pairs == sumOver(pairCount, grid, lines)
    IN  /\ countConflicts(grid) = sumOver(repeats, grid, lines)
        /\ countConflicts(grid) <= pairs
        /\ countConflicts(grid) = 0 <=> pairs = 0
        /\ (\A l \in lines : pairCount(grid, l) <= repeats(grid, l)) =>
             countConflicts(grid) = pairs

\* a grid with three equal values in one row
C23_Witness ==
  /\ Annealing
  /\ pc # "idle"
  /\ \E i \in Idx, j, k, l \in Idx :
       /\ j < k /\ k < l
       /\ heap[current][i][j] = heap[current][i][k]
       /\ heap[current][i][k] = heap[current][i][l]
  /\ countConflicts(heap[current]) < sumOver(pairCount, heap[current], lines)

---------------------------------------------------------------------------
(* C24: the annealing move *)

\* how many cells of block k hold d
held(grid, k, d) == Cardinality({p \in blockOf(k) : grid[p[1]][p[2]] = d})

\* after is before with the values of two distinct non-fixed cells of one
\* block exchanged
SwapOf(before_, after) ==
  \E a, b \in Cells :
    /\ a # b
    /\ sameBlock(a, b)
    /\ ~heap[FixedArg][a[1]][a[2]]
    /\ ~heap[FixedArg][b[1]][b[2]]
    /\ after[a[1]][a[2]] = before_[b[1]][b[2]]
    /\ after[b[1]][b[2]] = before_[a[1]][a[2]]
    /\ \A p \in Cells \ {a, b} : after[p[1]][p[2]] = before_[p[1]][p[2]]

C24_Step ==
  (Annealing /\ pc = "anneal") =>
    LET cur == heap[current]
        new == heap'[current']
    IN  /\ new = cur \/ SwapOf(cur, new)
        /\ cooled' = cooled => new = cur
        /\ \A k \in Idx, d \in Digits : held(new, k, d) = held(cur, k, d)
        /\ heap'[FixedArg] = heap[FixedArg]

C24_State ==
  (Annealing /\ pc # "idle") =>
    /\ heap[FixedArg] = fixedOf(run.state)
    /\ \A p \in Cells :
         run.state[p[1]][p[2]] # NULL => heap[current][p[1]][p[2]] = run.state[p[1]][p[2]]
    /\ \A k \in Idx, d \in Digits :
         held(heap[current], k, d) >= held(run.state, k, d)
    /\ ~HasBlockClash(run.state) => SeedOf(run.state, heap[current])

\* C24: an iteration of simulatedAnnealing leaves the current grid as it is
\* or exchanges the values of two distinct non-fixed cells of one block; so
\* with the mask marking the givens, in every state of the loop each given
\* holds its value and each block holds the values it held in the seed, each
\* as often as there.
C24_MoveSwapsInsideBlock == []C24_State /\ [][C24_Step]_vars

\* two moves attempted in blocks with a choice of cells, one of them taken
C24_Witness ==
  /\ Annealing
  /\ Returned
  /\ cooled = 2
  /\ Cardinality(emptyCells(run.state)) >= 3
  /\ emptyCells(run.state) # Cells
  /\ currentConflicts > 0
  /\ \E p \in emptyCells(run.state) :
       heap[current][p[1]][p[2]] # Solved[p[1]][p[2]]

---------------------------------------------------------------------------
(* C25: the acceptance rule *)

\* the moves an iteration can draw: two distinct non-fixed cells of a block
candidates ==
  LET free == {p \in Cells : ~heap[FixedArg][p[1]][p[2]]}
  IN  {ab \in free \X free : ab[1] # ab[2] /\ sameBlock(ab[1], ab[2])}

exchanged(grid, ab) ==
  [i \in Idx |-> [j \in Idx |->
     IF <<i, j>> = ab[1] THEN grid[ab[2][1]][ab[2][2]]
     ELSE IF <<i, j>> = ab[2] THEN grid[ab[1][1]][ab[1][2]]
     ELSE grid[i][j]]]

deltaOf(ab) == countConflicts(exchanged(heap[current], ab)) - currentConflicts

\* an iteration that went through to the acceptance test and kept the grid
rejection ==
  /\ simulatedAnnealing_iteration
  /\ cooled' = cooled + 1
  /\ heap'[current'] = heap[current]

C25_State ==
  (Annealing /\ pc # "idle") =>
    /\ currentConflicts = countConflicts(heap[current])
    /\ pc = "anneal" =>
         ((ENABLED rejection) <=> \E ab \in candidates : deltaOf(ab) > 0)

C25_Step ==
  (Annealing /\ pc = "anneal" /\ cooled' = cooled + 1) =>
    \/ /\ heap'[current'] = heap[current]
       /\ currentConflicts' = currentConflicts
       /\ \E ab \in candidates : deltaOf(ab) > 0
    \/ \E ab \in candidates :
         /\ heap'[current'] = exchanged(heap[current], ab)
         /\ currentConflicts' = currentConflicts + deltaOf(ab)

\* C25: a drawn move that does not raise the conflict count (delta <= 0,
\* delta = 0 included) is taken whatever the random draw: an iteration that
\* reaches the acceptance test can keep the old grid exactly when some move
\* that can be drawn raises the count; after every iteration the tracked count is countConflicts of the
\* current grid.
C25_Metropolis == []C25_State /\ [][C25_Step]_vars

\* after one move from a grid of equal count, on a grid where no move that
\* can be drawn raises the count and one leaves it as it is
C25_Witness ==
  /\ Annealing
  /\ pc = "anneal"
  /\ cooled = 1
  /\ candidates # {}
  /\ \A ab \in candidates : deltaOf(ab) <= 0
  /\ \E ab \in candidates : deltaOf(ab) = 0

---------------------------------------------------------------------------
(* C26: the cooling schedule *)

\* C26: the temperature is decayed once in each loop iteration: in every
\* state of simulatedAnnealing the number of decay steps applied so far is
\* the number of loop iterations executed so far, iterations that used a
\* budget slot without a move included.
C26_DecayEveryIteration ==
  (Annealing /\ pc # "idle") => cooled = metrics.iterations

---------------------------------------------------------------------------
(* C27: metrics.maxDepth *)

\* the largest number of parent links from a node created so far up to the root
deepestNode ==
  LET depths == {getDepth(nodes, n) : n \in 1 .. Len(nodes)}
  IN  CHOOSE d \in depths : \A e \in depths : e <= d

\* C27: after a backtracking search metrics.maxDepth is the largest
\* ancestor-chain length of any node created during the search, and 0 if no
\* child node was created.
C27_MaxDepthIsDeepestNode ==
  (Backtracking /\ Returned) =>
    metrics.maxDepth = IF Len(nodes) <= 1 THEN 0 ELSE deepestNode

---------------------------------------------------------------------------
(* C28: termination of the backtracking searches *)

filled(grid) == Cardinality(Cells \ emptyCells(grid))

gridOf(h, node) == h[node.problem.state]

C28_Step ==
  (Backtracking /\ pc = "loop") =>
    LET cur == nodes[top]
    IN  \* every child has one more assigned cell than its parent
        /\ \A n \in Len(nodes) + 1 .. Len(nodes') :
             /\ nodes'[n].parent = top
             /\ filled(gridOf(heap', nodes'[n])) = filled(gridOf(heap, cur)) + 1
        \* a node with a full grid is returned or dropped, never expanded
        /\ emptyCells(gridOf(heap, cur)) = {} =>
             /\ nodes' = nodes
             /\ metrics' = [metrics EXCEPT !.nodesExpanded = @ + 1]
             /\ IF NoClash(gridOf(heap, cur))
                THEN pc' = "done" /\ result' = ReturnNode(top)
                ELSE fringe' = afterPop(fringe)
        \* the frontier loses its top and gains the children only
        /\ Len(fringe') = Len(fringe) - 1 + (Len(nodes') - Len(nodes))
        /\ pc' = "done" =>
             \/ result' = ReturnNode(top) /\ isgoal(gridOf(heap, cur))
             \/ result' = ReturnNull /\ fringe' = <<>>

\* C28: every backtracking search comes to an end, returning a goal node or,
\* with the frontier empty, failure: every child has exactly one more
\* assigned cell than its parent and no node with a full grid is expanded.
C28_Terminates ==
  /\ Backtracking ~> Returned
  /\ [][C28_Step]_vars
  /\ [][Iteration /\ <<pc, metrics>>' # <<pc, metrics>>]_vars

\* a search that ended in failure on an empty frontier after creating nodes
\* nine cells deep
C28_Witness ==
  /\ Backtracking
  /\ Returned
  /\ result = ReturnNull
  /\ fringe = <<>>
  /\ \E n \in 1 .. Len(nodes) : getDepth(nodes, n) >= 9

---------------------------------------------------------------------------
(* C29: givens are never overwritten *)

\* grid holds every given of board
keepsGivens(board, grid) ==
  \A p \in Cells : board[p[1]][p[2]] # NULL => grid[p[1]][p[2]] = board[p[1]][p[2]]

\* the cells in which two grids differ
changedCells(old, new) == {p \in Cells : old[p[1]][p[2]] # new[p[1]][p[2]]}

C29_Step ==
  Backtracking =>
    \A n \in Len(nodes) + 1 .. Len(nodes') :
      LET grid == gridOf(heap', nodes'[n])
      IN  /\ keepsGivens(run.state, grid)
          /\ IF nodes'[n].parent = NoNode
             THEN grid = run.state
             ELSE LET parent == gridOf(heap, nodes[nodes'[n].parent])
                  IN  \E p \in Cells :
                        /\ changedCells(parent, grid) = {p}
                        /\ parent[p[1]][p[2]] = NULL
                        /\ grid[p[1]][p[2]] \in Digits

C29_State ==
  Backtracking =>
    /\ \A n \in 1 .. Len(nodes) : keepsGivens(run.state, gridOf(heap, nodes[n]))
    /\ Succeeded =>
         /\ keepsGivens(run.state, heap[Solution])
         /\ emptyCells(heap[Solution]) = {}

\* C29: every node's grid agrees with the input on every given and differs
\* from its parent's grid in exactly one cell, empty in the parent and
\* holding a digit of 1..9 in the child; so a returned solution is a
\* completion of the input grid.
C29_GivensKept == []C29_State /\ [][C29_Step]_vars

\* a search that succeeded, six cells deep, on a board with givens
C29_Witness ==
  /\ Backtracking
  /\ Succeeded
  /\ Cardinality(emptyCells(run.state)) = 6
  /\ getDepth(nodes, result.node) = 6
  /\ heap[Solution] # run.state

---------------------------------------------------------------------------
(* C30: the domains over-approximate legality *)

\* a digit missing from the domain of an empty cell is held by a filled peer
overApproximates(grid, domain) ==
  \A c \in emptyCells(grid), v \in Digits :
    ~Includes(domain[c[1]][c[2]], v) =>
      \E q \in Cells : peers(c, q) /\ grid[q[1]][q[2]] = v

\* the empty cells at which no digit is legal: a grid with one has no
\* completion
deadCells(grid) ==
  {c \in emptyCells(grid) : \A v \in Digits : ~legalAt(grid, c, v)}

C30_Step ==
  Backtracking =>
    \* the root
    /\ pc = "idle" =>
         \A n \in 1 .. Len(nodes') :
           overApproximates(gridOf(heap', nodes'[n]), heap'[nodes'[n].problem.domain])
    \* every child an expansion builds, kept or not
    /\ pc = "loop" =>
         \A k \in 1 .. tries :
           LET grid == heap'[Len(heap) + 2 * k - 1]
               domain == heap'[Len(heap) + 2 * k]
           IN  /\ overApproximates(grid, domain)
               /\ starved(grid, domain) \subseteq deadCells(grid)
    \* a child that is not kept has a cell without a legal digit
    /\ (pc = "loop" /\ run.alg # "backtack") =>
         \A k \in 1 .. tries :
           LET grid == heap'[Len(heap) + 2 * k - 1]
               kept == \E n \in Len(nodes) + 1 .. Len(nodes') :
                         nodes'[n].problem.state = Len(heap) + 2 * k - 1
           IN  ~kept => deadCells(grid) # {}

\* C30: in every node the domains over-approximate legality: a digit missing
\* from the domain of an unassigned cell is held by a filled peer of the cell
\* in the node's grid.  So an unassigned cell with an empty domain has no
\* legal digit, and every child forward checking drops has such a cell and
\* cannot be completed.
C30_DomainsOverApproximate == [][C30_Step]_vars

\* forward checking has dropped a child, and a node holds an empty cell with
\* one digit left
C30_Witness ==
  /\ run.alg = "backtack_forward"
  /\ pruned > 0
  /\ \E n \in 1 .. Len(nodes) :
       \E c \in emptyCells(gridOf(heap, nodes[n])) :
         Len(heap[nodes[n].problem.domain][c[1]][c[2]]) = 1

=============================================================================
